---- MODULE Spec2Model ----
(***************************************************************************)
(* Model of src/main.py: the orchestration layer that resolves the project *)
(* content and the model identifier, registers tools, builds the agents    *)
(* and the 14-task script, and hands them to the external engine.          *)
(*                                                                         *)
(* Python strings are sequences of one-character strings, so that len(),   *)
(* strip(), lower(), int() and f-string concatenation are computed, not    *)
(* assumed.  The fixed prose of the prompts is left out; only the          *)
(* interpolated parts are kept.                                            *)
(***************************************************************************)
EXTENDS Integers, Sequences, FiniteSets, TLC

\* ------------------------------------------------------------------------
\* Bounds of the model
\* ------------------------------------------------------------------------
MaxPdfFiles == 2    \* at most this many *.pdf files in the working directory
MaxPages == 1       \* at most this many pages in a PDF that parses

\* ------------------------------------------------------------------------
\* String literals of the source
\* ------------------------------------------------------------------------
GPT_4O == <<"g", "p", "t", "-", "4", "o">>
GPT_4_TURBO == <<"g", "p", "t", "-", "4", "-", "t", "u", "r", "b", "o">>
ERR_NOT_FOUND_PRE == <<"E", "r", "r", "o", "r", ":", " ", "T", "h", "e", " ", "f", "i", "l", "e", " ", "'">>
ERR_NOT_FOUND_POST == <<"'", " ", "w", "a", "s", " ", "n", "o", "t", " ", "f", "o", "u", "n", "d", ".">>
ERR_READING_PRE == <<"E", "r", "r", "o", "r", " ", "r", "e", "a", "d", "i", "n", "g", " ", "P", "D", "F", ":", " ">>
EXECUTION_FAILED == <<"E", "x", "e", "c", "u", "t", "i", "o", "n", " ", "F", "a", "i", "l", "e", "d", ":", " ", "N", "o", " ", "I", "n", "p", "u", "t", " ", "C", "o", "n", "t", "e", "n", "t">>
PROJECT_CONTENT_LABEL == <<"P", "r", "o", "j", "e", "c", "t", " ", "C", "o", "n", "t", "e", "n", "t", ":", "\n">>
MIN_CONTENT_LEN == 10

\* ------------------------------------------------------------------------
\* Sample data: texts, paths, typed lines, secrets
\* ------------------------------------------------------------------------
TEXT_BLANK == <<" ", "\t", "\n">>
TEXT_SHORT == <<"T", "o", "-", "d", "o", " ", "a", "p", "p">>
TEXT_PADDED == <<" ", "T", "o", "d", "o", " ", "a", "p", "p", "\n">>
PAGE_NINE == <<"B", "r", "i", "e", "f", " ", "p", ".", "1">>
ENV_MODEL == <<"g", "p", "t", "-", "4", "o", "-", "m", "i", "n", "i">>
INPUT_MODEL == <<"o", "3", "-", "m", "i", "n", "i">>
TYPED_MODEL == <<" ", "m", "y", "/", "m", "o", "d", "e", "l", " ">>
TYPED_BASE == <<" ", "h", "t", "t", "p", ":", "/", "/", "h", "/", "v", "1", " ">>
OLD_BASE == <<"h", "t", "t", "p", ":", "/", "/", "o", "l", "d">>
SECRET == <<"k", "e", "y">>

DigitChar == [d \in 0..9 |-> CASE d = 0 -> "0" [] d = 1 -> "1" [] d = 2 -> "2"
                               [] d = 3 -> "3" [] d = 4 -> "4" [] d = 5 -> "5"
                               [] d = 6 -> "6" [] d = 7 -> "7" [] d = 8 -> "8"
                               [] d = 9 -> "9"]

\* the name of the k-th PDF of the working directory: doc<k>.pdf
PdfName(k) == <<"d", "o", "c", DigitChar[k]>> \o <<".", "p", "d", "f">>

ProjectTexts == {<<>>, TEXT_BLANK, TEXT_SHORT, TEXT_PADDED}
PdfPaths == {<<>>, PdfName(1)}
PageTexts == {<<>>, PAGE_NINE}
ExcMessages == {<<>>}
EngineErrors == {<<"<RateLimitError>">>}
CrewOutput == <<"<CrewOutput>">>

\* ------------------------------------------------------------------------
\* Python built-ins used by the source
\* ------------------------------------------------------------------------
None == <<"<None>">>

Whitespace == {" ", "\t", "\n"}

RECURSIVE LStrip(_)
LStrip(s) == IF s # <<>> /\ Head(s) \in Whitespace THEN LStrip(Tail(s)) ELSE s

RECURSIVE RStrip(_)
RStrip(s) == IF s # <<>> /\ s[Len(s)] \in Whitespace
             THEN RStrip(SubSeq(s, 1, Len(s) - 1)) ELSE s

\* str.strip()
Strip(s) == RStrip(LStrip(s))

\* truth value of a string or None
Truthy(v) == v # None /\ v # <<>>

\* str.lower() on the letters the prompts are answered with
LowerChar(c) == CASE c = "Y" -> "y" [] c = "N" -> "n" [] OTHER -> c
Lower(s) == [i \in 1..Len(s) |-> LowerChar(s[i])]

IsDigit(c) == \E d \in 0..9 : DigitChar[d] = c
DigitVal(c) == CHOOSE d \in 0..9 : DigitChar[d] = c

RECURSIVE DigitsVal(_)
DigitsVal(s) == IF s = <<>> THEN 0
                ELSE 10 * DigitsVal(SubSeq(s, 1, Len(s) - 1)) + DigitVal(s[Len(s)])

\* int(s): optional surrounding whitespace, optional sign, at least one digit;
\* anything else raises ValueError
ParseInt(s) ==
    LET t == Strip(s)
        signed == t # <<>> /\ t[1] \in {"+", "-"}
        digits == IF signed THEN Tail(t) ELSE t
        ok == digits # <<>> /\ \A i \in 1..Len(digits) : IsDigit(digits[i])
    IN  [ok |-> ok,
         val |-> IF ~ok THEN 0
                 ELSE IF signed /\ t[1] = "-" THEN 0 - DigitsVal(digits)
                 ELSE DigitsVal(digits)]

\* os.getenv(name) over the environment env
getenv(env, name) == IF name \in DOMAIN env THEN env[name] ELSE None

Range(s) == {s[i] : i \in 1..Len(s)}

\* ------------------------------------------------------------------------
\* State
\* ------------------------------------------------------------------------
VARIABLES
    inputs,           \* argument of run(): None, or a dictionary from keys to strings
    environ,          \* os.environ: a function from the names that are set
    pdf_files,        \* glob.glob("*.pdf") of the working directory
    pc,               \* position of the run
    project_content,  \* local of run()
    llm_config,       \* local of run()
    target_pdf_file,  \* local of run()
    read_calls,       \* calls of read_pdf_content: the path, and whether extraction failed
    prompted,         \* TRUE once input() has been read
    frame,            \* select_pdf_file or configure_llm about to return: lines read, result
    printed,          \* tags of the warnings and errors printed
    dirs,             \* directories created
    constructed,      \* tool classes instantiated
    analyst_tools,    \* local of run()
    resource_tools,   \* local of run()
    agents,           \* the Agent objects built, in order
    tasks,            \* the Task objects built, in order
    crew,             \* the Crew object, or NoCrew
    kickoffs,         \* number of calls of crew.kickoff
    in_progress,      \* engine: tasks started and not completed
    completed,        \* engine: tasks completed, in order of completion
    retval,           \* what run() returned
    exit_status,      \* status passed to sys.exit, or -1
    raised,           \* exception that left run(), or None
    engine_exc        \* exception the engine raised, or None

vars == <<inputs, environ, pdf_files, pc, project_content, llm_config,
          target_pdf_file, read_calls, prompted, frame, printed, dirs,
          constructed, analyst_tools, resource_tools, agents, tasks, crew, kickoffs,
          in_progress, completed, retval, exit_status, raised, engine_exc>>

resolverVars == <<project_content, llm_config, target_pdf_file, read_calls>>
buildVars == <<dirs, constructed, analyst_tools, resource_tools, agents, tasks, crew>>
engineVars == <<kickoffs, in_progress, completed, engine_exc>>
endVars == <<retval, exit_status, raised>>
worldVars == <<inputs, pdf_files>>

EnvNames == {"OPENAI_MODEL_NAME", "OPENAI_API_KEY", "SERPER_API_KEY",
             "GITHUB_TOKEN", "EXA_API_KEY", "OPENAI_API_BASE"}

\* values a variable may hold when it is set
EnvValues(name) == CASE name = "OPENAI_MODEL_NAME" -> {<<>>, ENV_MODEL}
                     [] name = "OPENAI_API_BASE" -> {OLD_BASE}
                     [] OTHER -> {SECRET}

Environments ==
    {e \in UNION {[S -> {<<>>, ENV_MODEL, OLD_BASE, SECRET}] : S \in SUBSET EnvNames} :
        \A name \in DOMAIN e : e[name] \in EnvValues(name)}

InputKeys == {"project_text", "pdf_path", "llm_model"}

KeyValues(key) == CASE key = "project_text" -> ProjectTexts
                    [] key = "pdf_path" -> PdfPaths
                    [] key = "llm_model" -> {INPUT_MODEL}

Dictionaries ==
    {d \in UNION {[S -> ProjectTexts \cup PdfPaths \cup {INPUT_MODEL}] : S \in SUBSET InputKeys} :
        \A key \in DOMAIN d : d[key] \in KeyValues(key)}

NoCrew == [agents |-> <<>>, tasks |-> <<>>, process |-> "none"]

\* no interactive helper is executing
NoFrame == [fn |-> "none", lines |-> <<>>, result |-> None]

\* line 101: if inputs
InputsTruthy(inp) == inp.is_dict /\ DOMAIN inp.dict # {}

\* the working directory with n PDF files
Listing(n) == [k \in 1..n |-> PdfName(k)]

\* the argument of run() and the working directory it runs in.  A run that
\* takes the programmatic branch never lists the directory: all it can see of
\* it is whether its pdf_path exists, so one file is enough there.
Worlds ==
    LET Arguments == {[is_dict |-> FALSE, dict |-> <<>>]}
                     \cup {[is_dict |-> TRUE, dict |-> d] : d \in Dictionaries}
    IN  {<<inp, Listing(n)>> : inp \in {a \in Arguments : ~InputsTruthy(a)},
                               n \in 0..MaxPdfFiles}
        \cup {<<inp, Listing(n)>> : inp \in {a \in Arguments : InputsTruthy(a)},
                                    n \in 0..1}

Init ==
    /\ \E w \in Worlds : inputs = w[1] /\ pdf_files = w[2]
    /\ environ \in Environments
    /\ pc = "start"
    /\ project_content = <<>>
    /\ llm_config = GPT_4O
    /\ target_pdf_file = None
    /\ read_calls = <<>>
    /\ prompted = FALSE
    /\ frame = NoFrame
    /\ printed = {}
    /\ dirs = {}
    /\ constructed = {}
    /\ analyst_tools = <<>>
    /\ resource_tools = <<>>
    /\ agents = <<>>
    /\ tasks = <<>>
    /\ crew = NoCrew
    /\ kickoffs = 0
    /\ in_progress = {}
    /\ completed = <<>>
    /\ retval = None
    /\ exit_status = -1
    /\ raised = None
    /\ engine_exc = None

\* ------------------------------------------------------------------------
\* read_pdf_content
\* ------------------------------------------------------------------------
\* what opening and parsing an existing file can do: raise an exception with
\* a message, or yield pages whose extracted texts are given
PdfOutcomes ==
    {[exc |-> TRUE, msg |-> m, pages |-> <<>>] : m \in ExcMessages}
    \cup {[exc |-> FALSE, msg |-> <<>>, pages |-> p] :
            p \in UNION {[1..n -> PageTexts] : n \in 0..MaxPages}}

\* os.path.exists: the files of the model are those of the working directory
Exists(files, path) == path \in Range(files)

\* the loop of lines 78-81: text_content += page.extract_text() + "\n"
RECURSIVE ExtractPages(_)
ExtractPages(pages) ==
    IF pages = <<>> THEN <<>>
    ELSE ExtractPages(SubSeq(pages, 1, Len(pages) - 1)) \o pages[Len(pages)] \o <<"\n">>

\* a bug that returns "" for a file that is not there, as for an empty path
read_pdf_content_no_message(files, pdf_path, outcome) ==
    IF ~Truthy(pdf_path) THEN <<>>
    ELSE IF ~Exists(files, pdf_path) THEN <<>>
    ELSE IF outcome.exc THEN ERR_READING_PRE \o outcome.msg
    ELSE ExtractPages(outcome.pages)

\* a bug that swallows the exception and returns what was extracted so far
read_pdf_content_swallow(files, pdf_path, outcome) ==
    IF ~Truthy(pdf_path) THEN <<>>
    ELSE IF ~Exists(files, pdf_path)
         THEN ERR_NOT_FOUND_PRE \o pdf_path \o ERR_NOT_FOUND_POST
    ELSE IF outcome.exc THEN <<>>
    ELSE ExtractPages(outcome.pages)

read_pdf_content(files, pdf_path, outcome) ==
    IF ~Truthy(pdf_path) THEN <<>>
    ELSE IF ~Exists(files, pdf_path)
         THEN ERR_NOT_FOUND_PRE \o pdf_path \o ERR_NOT_FOUND_POST
    ELSE IF outcome.exc THEN ERR_READING_PRE \o outcome.msg
    ELSE ExtractPages(outcome.pages)

\* extraction fails when the file is not found or opening or parsing raises
ExtractionFails(files, pdf_path, outcome) ==
    Truthy(pdf_path) /\ (~Exists(files, pdf_path) \/ outcome.exc)

ReadCall(files, pdf_path, outcome) ==
    [path |-> pdf_path, failed |-> ExtractionFails(files, pdf_path, outcome)]

\* ------------------------------------------------------------------------
\* run(): resolution of the content and of the model, programmatic branch
\* ------------------------------------------------------------------------
\* line 108
UsesPdfPath(d) == "pdf_path" \in DOMAIN d /\ Truthy(d["pdf_path"])

\* a bug that lets a PDF path take precedence over the text
UsesDirectText_unless_pdf(d) ==
    /\ "project_text" \in DOMAIN d
    /\ Truthy(d["project_text"])
    /\ Truthy(Strip(d["project_text"]))
    /\ ~UsesPdfPath(d)

\* line 104
UsesDirectText(d) ==
    /\ "project_text" \in DOMAIN d
    /\ Truthy(d["project_text"])
    /\ Truthy(Strip(d["project_text"]))

\* a bug that lets the supplied model take precedence over the environment
ResolveModel_input_first(env, d) ==
    LET env_model == getenv(env, "OPENAI_MODEL_NAME")
    IN  IF "llm_model" \in DOMAIN d THEN d["llm_model"]
        ELSE IF Truthy(env_model) THEN env_model
        ELSE GPT_4O

\* lines 116-125
ResolveModel(env, d) ==
    LET env_model == getenv(env, "OPENAI_MODEL_NAME")
    IN  IF Truthy(env_model) THEN env_model
        ELSE IF "llm_model" \in DOMAIN d THEN d["llm_model"]
        ELSE GPT_4O

\* lines 101-125
RunCloud ==
    /\ pc = "start"
    /\ InputsTruthy(inputs)
    /\ LET d == inputs.dict IN
       \E outcome \in PdfOutcomes :
         /\ IF UsesDirectText(d)
            THEN /\ project_content' = d["project_text"]
                 /\ UNCHANGED <<target_pdf_file, read_calls, printed>>
            ELSE IF UsesPdfPath(d)
            THEN /\ target_pdf_file' = d["pdf_path"]
                 /\ read_calls' = Append(read_calls, ReadCall(pdf_files, d["pdf_path"], outcome))
                 /\ project_content' = read_pdf_content(pdf_files, d["pdf_path"], outcome)
                 /\ UNCHANGED printed
            ELSE /\ printed' = printed \cup {"no_valid_input"}
                 /\ UNCHANGED <<project_content, target_pdf_file, read_calls>>
         /\ llm_config' = ResolveModel(environ, d)
    /\ pc' = "check_content"
    /\ UNCHANGED <<worldVars, frame, environ, prompted, buildVars, engineVars, endVars>>

\* ------------------------------------------------------------------------
\* run(): interactive branch (lines 127-131)
\* ------------------------------------------------------------------------
SelectLines == {<<"1">>, <<" ", "2">>, <<"3">>, <<"0">>, <<"-", "1">>, <<"x">>, <<>>}
MenuLines == {<<>>, <<"1">>, <<" ", "2">>, <<"3">>, <<"9">>}
ModelLines == {TYPED_MODEL}
AnswerLines == {<<"y">>, <<"Y">>, <<"n">>, <<"y", " ">>}
BaseLines == {TYPED_BASE}

\* a bug that forgets the check of line 17
select_pdf_file_scan_no_check ==
    /\ pc = "start"
    /\ ~InputsTruthy(inputs)
    /\ pc' = "select_prompt"
    /\ UNCHANGED <<worldVars, frame, environ, resolverVars, prompted, printed, buildVars,
                   engineVars, endVars>>

\* select_pdf_file, lines 15-24: scan, and exit when nothing is found
select_pdf_file_scan ==
    /\ pc = "start"
    /\ ~InputsTruthy(inputs)
    /\ IF pdf_files = <<>>
       THEN /\ printed' = printed \cup {"no_pdf_files"}
            /\ exit_status' = 1
            /\ pc' = "exited"
       ELSE /\ pc' = "select_prompt"
            /\ UNCHANGED <<printed, exit_status>>
    /\ UNCHANGED <<worldVars, frame, environ, resolverVars, prompted, buildVars,
                   engineVars, retval, raised>>

\* a bug that uses the typed number as the 0-based index
SelectedIndex_off_by_one(files, line) ==
    LET n == ParseInt(Strip(line))
        file_index == n.val
    IN  IF n.ok /\ 0 <= file_index /\ file_index < Len(files)
        THEN file_index + 1 ELSE 0

\* line 30: the index chosen by a typed line, 0 when the line is rejected
SelectedIndex(files, line) ==
    LET n == ParseInt(Strip(line))
        file_index == n.val - 1
    IN  IF n.ok /\ 0 <= file_index /\ file_index < Len(files)
        THEN file_index + 1 ELSE 0

\* select_pdf_file, lines 26-37: one turn of the loop
select_pdf_file_prompt ==
    /\ pc = "select_prompt"
    /\ \E line \in SelectLines :
         LET k == SelectedIndex(pdf_files, line) IN
         /\ frame' = [fn |-> "select_pdf_file", lines |-> <<line>>,
                      result |-> IF k # 0 THEN pdf_files[k] ELSE None]
         /\ pc' = IF k # 0 THEN "select_return" ELSE "select_prompt"
    /\ prompted' = TRUE
    /\ UNCHANGED <<worldVars, environ, resolverVars, printed, buildVars,
                   engineVars, endVars>>

\* lines 33 and 129: the selection is returned and assigned
PdfSelected ==
    /\ pc = "select_return"
    /\ target_pdf_file' = frame.result
    /\ frame' = NoFrame
    /\ pc' = "read_selected"
    /\ UNCHANGED <<worldVars, environ, project_content, llm_config, read_calls,
                   prompted, printed, buildVars, engineVars, endVars>>

\* line 130
ReadSelected ==
    /\ pc = "read_selected"
    /\ \E outcome \in PdfOutcomes :
         /\ project_content' = read_pdf_content(pdf_files, target_pdf_file, outcome)
         /\ read_calls' = Append(read_calls, ReadCall(pdf_files, target_pdf_file, outcome))
    /\ pc' = "configure_llm"
    /\ UNCHANGED <<worldVars, frame, environ, llm_config, target_pdf_file, prompted,
                   printed, buildVars, engineVars, endVars>>

\* del os.environ[name]
DelEnv(env, name) == [n \in DOMAIN env \ {name} |-> env[n]]

\* os.environ[name] = value
SetEnv(env, name, value) ==
    [n \in DOMAIN env \cup {name} |-> IF n = name THEN value ELSE env[n]]

\* configure_llm, lines 46-65: the model returned, the environment left and
\* the lines read from the keyboard
configure_llm(env, choice_line, model_line, answer_line, base_line) ==
    LET stripped == Strip(choice_line)
        choice == IF Truthy(stripped) THEN stripped ELSE <<"1">>
        reset == DelEnv(env, "OPENAI_API_BASE")
    IN  IF choice = <<"1">>
        THEN [model |-> GPT_4O, env |-> reset, lines |-> <<choice_line>>]
        ELSE IF choice = <<"2">>
        THEN [model |-> GPT_4_TURBO, env |-> reset, lines |-> <<choice_line>>]
        ELSE IF choice = <<"3">>
        THEN IF Lower(answer_line) = <<"y">>
             THEN [model |-> Strip(model_line),
                   env |-> SetEnv(reset, "OPENAI_API_BASE", Strip(base_line)),
                   lines |-> <<choice_line, model_line, answer_line, base_line>>]
             ELSE [model |-> Strip(model_line), env |-> reset,
                   lines |-> <<choice_line, model_line, answer_line>>]
        ELSE [model |-> GPT_4O, env |-> reset, lines |-> <<choice_line>>]

\* line 131, the call: lines 39-65 run
ConfigureLlm ==
    /\ pc = "configure_llm"
    /\ \E choice_line \in MenuLines, model_line \in ModelLines,
          answer_line \in AnswerLines, base_line \in BaseLines :
         LET r == configure_llm(environ, choice_line, model_line, answer_line, base_line) IN
         /\ environ' = r.env
         /\ frame' = [fn |-> "configure_llm", lines |-> r.lines, result |-> r.model]
    /\ prompted' = TRUE
    /\ pc' = "configure_return"
    /\ UNCHANGED <<worldVars, resolverVars, printed, buildVars, engineVars, endVars>>

\* line 131, the assignment of what configure_llm returned
LlmConfigured ==
    /\ pc = "configure_return"
    /\ llm_config' = frame.result
    /\ frame' = NoFrame
    /\ pc' = "check_content"
    /\ UNCHANGED <<worldVars, environ, project_content, target_pdf_file, read_calls,
                   prompted, printed, buildVars, engineVars, endVars>>

\* ------------------------------------------------------------------------
\* run(): the content check (lines 133-136)
\* ------------------------------------------------------------------------
ContentUsable(content) == Truthy(content) /\ ~(Len(content) < MIN_CONTENT_LEN)

CheckContent ==
    /\ pc = "check_content"
    /\ IF ContentUsable(project_content)
       THEN /\ pc' = "check_keys"
            /\ UNCHANGED <<printed, retval>>
       ELSE /\ printed' = printed \cup {"no_project_content"}
            /\ retval' = EXECUTION_FAILED
            /\ pc' = "returned"
    /\ UNCHANGED <<worldVars, frame, environ, resolverVars, prompted, buildVars,
                   engineVars, exit_status, raised>>

\* ------------------------------------------------------------------------
\* run(): keys, folders, tools (lines 138-183)
\* ------------------------------------------------------------------------
\* lines 139-143: the two warnings; neither returns, exits nor raises
KeyWarnings(env) ==
    (IF Truthy(getenv(env, "OPENAI_API_KEY")) THEN {} ELSE {"warn_openai_key"})
    \cup (IF Truthy(getenv(env, "SERPER_API_KEY")) THEN {} ELSE {"warn_serper_key"})

\* a bug that makes a missing key fatal
CheckKeys_fatal ==
    /\ pc = "check_keys"
    /\ printed' = printed \cup KeyWarnings(environ)
    /\ IF KeyWarnings(environ) = {}
       THEN /\ pc' = "create_folders"
            /\ UNCHANGED retval
       ELSE /\ pc' = "returned"
            /\ retval' = EXECUTION_FAILED
    /\ UNCHANGED <<worldVars, frame, environ, resolverVars, prompted, buildVars,
                   engineVars, exit_status, raised>>

CheckKeys ==
    /\ pc = "check_keys"
    /\ printed' = printed \cup KeyWarnings(environ)
    /\ pc' = "create_folders"
    /\ UNCHANGED <<worldVars, frame, environ, resolverVars, prompted, buildVars,
                   engineVars, endVars>>

\* lines 146-153
OutputFolders == {"project_analysis_output", "resource_output", "code_output"}

CreateFolders ==
    /\ pc = "create_folders"
    /\ dirs' = dirs \cup OutputFolders
    /\ pc' = "init_tools"
    /\ UNCHANGED <<worldVars, frame, environ, resolverVars, prompted, printed,
                   constructed, analyst_tools, resource_tools, agents, tasks,
                   crew, engineVars, endVars>>

\* lines 157-158: constructed whatever the environment holds
BaseTools == <<"FileWriterTool", "SerperDevTool">>

\* line 165
GithubEnabled(env) == Truthy(getenv(env, "GITHUB_TOKEN"))

\* a bug that loads the tool whatever the environment holds
ExaEnabled_always(env) == TRUE

\* line 177
ExaEnabled(env) == Truthy(getenv(env, "EXA_API_KEY"))

\* lines 161-183: exa_ok tells whether the constructor of line 180 returned
ResourceTools(env, exa_ok) ==
    BaseTools
    \o (IF GithubEnabled(env) THEN <<"GithubSearchTool">> ELSE <<>>)
    \o (IF ExaEnabled(env) /\ exa_ok THEN <<"EXASearchTool">> ELSE <<>>)

InitTools ==
    /\ pc = "init_tools"
    /\ \E exa_ok \in BOOLEAN :
         /\ analyst_tools' = BaseTools
         /\ resource_tools' = ResourceTools(environ, exa_ok)
         /\ constructed' = constructed \cup Range(ResourceTools(environ, exa_ok))
         /\ printed' = printed
                \cup (IF GithubEnabled(environ) THEN {} ELSE {"skip_github"})
                \cup (IF ExaEnabled(environ) /\ ~exa_ok THEN {"exa_not_loaded"} ELSE {})
    /\ pc' = "build_agents"
    /\ UNCHANGED <<worldVars, frame, environ, resolverVars, prompted, dirs, agents,
                   tasks, crew, engineVars, endVars>>

\* ------------------------------------------------------------------------
\* run(): agents, tasks, crew (lines 188-516)
\* ------------------------------------------------------------------------
\* lines 188-233
BuildAgents ==
    /\ pc = "build_agents"
    /\ agents' = <<[name |-> "project_analyst", tools |-> analyst_tools,
                    memory |-> TRUE, llm |-> llm_config],
                   [name |-> "resource_search_agent", tools |-> resource_tools,
                    memory |-> TRUE, llm |-> llm_config],
                   [name |-> "coding_agent", tools |-> <<BaseTools[1]>>,
                    memory |-> TRUE, llm |-> llm_config]>>
    /\ pc' = "build_tasks"
    /\ UNCHANGED <<worldVars, frame, environ, resolverVars, prompted, printed, dirs,
                   constructed, analyst_tools, resource_tools, tasks, crew,
                   engineVars, endVars>>

\* the Task objects in the order of their definition ("# Task 1" .. "# Task 14")
TaskScript ==
    <<[name |-> "project_context_task", agent |-> "project_analyst"],
      [name |-> "objective_task", agent |-> "project_analyst"],
      [name |-> "technical_task", agent |-> "project_analyst"],
      [name |-> "resource_task", agent |-> "project_analyst"],
      [name |-> "multi_platform_discovery_task", agent |-> "resource_search_agent"],
      [name |-> "code_repository_analysis_task", agent |-> "resource_search_agent"],
      [name |-> "dataset_discovery_task", agent |-> "resource_search_agent"],
      [name |-> "academic_paper_task", agent |-> "resource_search_agent"],
      [name |-> "realtime_monitoring_task", agent |-> "resource_search_agent"],
      [name |-> "architecture_design_task", agent |-> "coding_agent"],
      [name |-> "starter_template_task", agent |-> "coding_agent"],
      [name |-> "custom_components_task", agent |-> "coding_agent"],
      [name |-> "api_integration_task", agent |-> "coding_agent"],
      [name |-> "testing_validation_task", agent |-> "coding_agent"]>>

\* the interpolated tail of a description: tasks 1-4 end with
\* f"Project Content:\n{project_content}", the others interpolate no content
Description(n, content) ==
    IF n <= 4 THEN PROJECT_CONTENT_LABEL \o content ELSE <<>>

\* lines 236-490
BuildTasks ==
    /\ pc = "build_tasks"
    /\ tasks' = [n \in 1..Len(TaskScript) |->
                    [n |-> n, name |-> TaskScript[n].name,
                     agent |-> TaskScript[n].agent,
                     description |-> Description(n, project_content)]]
    /\ pc' = "build_crew"
    /\ UNCHANGED <<worldVars, frame, environ, resolverVars, prompted, printed, dirs,
                   constructed, analyst_tools, resource_tools, agents, crew,
                   engineVars, endVars>>

\* a bug that lists two tasks in the wrong order
CrewTasks_swapped ==
    <<"project_context_task", "objective_task", "technical_task", "resource_task",
      "code_repository_analysis_task", "multi_platform_discovery_task",
      "dataset_discovery_task", "academic_paper_task", "realtime_monitoring_task",
      "architecture_design_task", "starter_template_task", "custom_components_task",
      "api_integration_task", "testing_validation_task">>

\* lines 496-514: the list literal given to Crew(tasks=...)
CrewTasks ==
    <<"project_context_task", "objective_task", "technical_task", "resource_task",
      "multi_platform_discovery_task", "code_repository_analysis_task",
      "dataset_discovery_task", "academic_paper_task", "realtime_monitoring_task",
      "architecture_design_task", "starter_template_task", "custom_components_task",
      "api_integration_task", "testing_validation_task">>

\* line 515
CrewProcess == "sequential"

TaskNamed(ts, name) == CHOOSE t \in Range(ts) : t.name = name

\* lines 494-516
BuildCrew ==
    /\ pc = "build_crew"
    /\ crew' = [agents |-> [i \in 1..Len(agents) |-> agents[i].name],
                tasks |-> [i \in 1..Len(CrewTasks) |-> TaskNamed(tasks, CrewTasks[i])],
                process |-> CrewProcess]
    /\ pc' = "kickoff"
    /\ UNCHANGED <<worldVars, frame, environ, resolverVars, prompted, printed, dirs,
                   constructed, analyst_tools, resource_tools, agents, tasks,
                   engineVars, endVars>>

\* ------------------------------------------------------------------------
\* run(): the engine (lines 526-536)
\* ------------------------------------------------------------------------
\* line 527: the call of crew.kickoff
Kickoff ==
    /\ pc = "kickoff"
    /\ kickoffs' = kickoffs + 1
    /\ printed' = printed \cup {"starting_workflow"}
    /\ pc' = "engine"
    /\ UNCHANGED <<worldVars, frame, environ, resolverVars, prompted, buildVars,
                   in_progress, completed, engine_exc, endVars>>

Started == in_progress \cup Range(completed)

\* the engine starts a task of the request: under Process.sequential the next
\* one of the list, once nothing is in progress; otherwise any task not started
TaskStart ==
    /\ pc = "engine"
    /\ \E i \in 1..Len(crew.tasks) :
         /\ crew.tasks[i].n \notin Started
         /\ crew.process = "sequential" =>
                /\ in_progress = {}
                /\ \A j \in 1..(i - 1) : crew.tasks[j].n \in Range(completed)
         /\ in_progress' = in_progress \cup {crew.tasks[i].n}
    /\ UNCHANGED <<worldVars, frame, environ, pc, resolverVars, prompted, printed,
                   buildVars, kickoffs, completed, engine_exc, endVars>>

TaskComplete ==
    /\ pc = "engine"
    /\ \E n \in in_progress :
         /\ in_progress' = in_progress \ {n}
         /\ completed' = Append(completed, n)
    /\ UNCHANGED <<worldVars, frame, environ, pc, resolverVars, prompted, printed,
                   buildVars, kickoffs, engine_exc, endVars>>

\* lines 528-533: kickoff returned
KickoffReturns ==
    /\ pc = "engine"
    /\ in_progress = {}
    /\ Len(completed) = Len(crew.tasks)
    /\ printed' = printed \cup {"workflow_complete"}
    /\ retval' = CrewOutput
    /\ pc' = "returned"
    /\ UNCHANGED <<worldVars, frame, environ, resolverVars, prompted, buildVars,
                   engineVars, exit_status, raised>>

\* a bug that raises a new exception in place of the one caught
Reraise_wrapped(e) == <<"<RuntimeError>">>

\* line 536: raise e
Reraise(e) == e

\* lines 534-536: kickoff raised
KickoffRaises ==
    /\ pc = "engine"
    /\ \E e \in EngineErrors :
         /\ engine_exc' = e
         /\ raised' = Reraise(e)
    /\ printed' = printed \cup {"critical_error"}
    /\ pc' = "raised"
    /\ UNCHANGED <<worldVars, frame, environ, resolverVars, prompted, buildVars,
                   kickoffs, in_progress, completed, retval, exit_status>>

\* ------------------------------------------------------------------------
\* Specification
\* ------------------------------------------------------------------------
Next ==
    \/ RunCloud
    \/ select_pdf_file_scan
    \/ select_pdf_file_prompt
    \/ PdfSelected
    \/ ReadSelected
    \/ ConfigureLlm
    \/ LlmConfigured
    \/ CheckContent
    \/ CheckKeys
    \/ CreateFolders
    \/ InitTools
    \/ BuildAgents
    \/ BuildTasks
    \/ BuildCrew
    \/ Kickoff
    \/ TaskStart
    \/ TaskComplete
    \/ KickoffReturns
    \/ KickoffRaises

Spec == Init /\ [][Next]_vars

Terminated == pc \in {"returned", "raised", "exited"}

\* ------------------------------------------------------------------------
\* Properties
\* ------------------------------------------------------------------------
Dict == inputs.dict

HasKey(key) == inputs.is_dict /\ key \in DOMAIN Dict

IsErrorString(s) == Len(s) >= 5 /\ SubSeq(s, 1, 5) = <<"E", "r", "r", "o", "r">>

EnvSet(name) == Truthy(getenv(environ, name))

\* the run is past the resolution of content and model
Resolved == pc \notin {"start", "select_prompt", "select_return", "read_selected",
                       "configure_llm", "configure_return", "exited"}

NothingBuilt ==
    /\ dirs = {}
    /\ constructed = {}
    /\ agents = <<>>
    /\ tasks = <<>>
    /\ crew = NoCrew
    /\ kickoffs = 0

\* C1 as stated: whenever the inputs hold a non-empty project_text, the
\* resolved content is that text verbatim and read_pdf_content is not called.
C1_NonEmptyTextVerbatim ==
    (HasKey("project_text") /\ Dict["project_text"] # <<>> /\ pc # "start")
        => (project_content = Dict["project_text"] /\ read_calls = <<>>)

\* C1 amended: whenever the inputs hold a project_text that is not blank
\* (something is left after stripping whitespace), the resolved content is
\* that text verbatim and read_pdf_content is not called, pdf_path or not.
C1_NonBlankTextVerbatim ==
    (HasKey("project_text") /\ Strip(Dict["project_text"]) # <<>> /\ pc # "start")
        => (project_content = Dict["project_text"] /\ read_calls = <<>>)

C1_Witness ==
    /\ pc = "check_content"
    /\ HasKey("project_text") /\ HasKey("pdf_path")
    /\ Dict["pdf_path"] # <<>>
    /\ Dict["project_text"] = TEXT_PADDED
    /\ project_content = TEXT_PADDED
    /\ read_calls = <<>>

\* C2: with a pdf_path set and project_text absent or blank, extraction is
\* attempted from exactly that path, once; when the path does not exist the
\* resolved content is a non-empty error string and nothing was raised.
C2_PdfPathExtraction ==
    (/\ HasKey("pdf_path") /\ Dict["pdf_path"] # <<>>
     /\ (HasKey("project_text") => Strip(Dict["project_text"]) = <<>>)
     /\ pc # "start")
        => /\ Len(read_calls) = 1
           /\ read_calls[1].path = Dict["pdf_path"]
           /\ target_pdf_file = Dict["pdf_path"]
           /\ ~Exists(pdf_files, Dict["pdf_path"])
                => /\ IsErrorString(project_content)
                   /\ project_content # <<>>
                   /\ (raised # None => kickoffs = 1)

C2_Witness ==
    /\ pc = "check_content"
    /\ HasKey("pdf_path") /\ Dict["pdf_path"] = PdfName(1)
    /\ HasKey("project_text") /\ Dict["project_text"] = TEXT_BLANK
    /\ pdf_files = <<>>
    /\ read_calls = <<[path |-> PdfName(1), failed |-> TRUE]>>
    /\ project_content = ERR_NOT_FOUND_PRE \o PdfName(1) \o ERR_NOT_FOUND_POST

\* the model the claim C3 expects: environment, then llm_model, then gpt-4o
PrecedenceModel ==
    IF EnvSet("OPENAI_MODEL_NAME") THEN environ["OPENAI_MODEL_NAME"]
    ELSE IF HasKey("llm_model") THEN Dict["llm_model"]
    ELSE GPT_4O

\* C3 as stated: whenever OPENAI_MODEL_NAME is set, every agent of the run is
\* given its value; when it is not, a supplied llm_model is what they are given.
C3_EnvModelAlways ==
    \A i \in 1..Len(agents) :
        /\ EnvSet("OPENAI_MODEL_NAME") => agents[i].llm = environ["OPENAI_MODEL_NAME"]
        /\ (~EnvSet("OPENAI_MODEL_NAME") /\ HasKey("llm_model"))
                => agents[i].llm = Dict["llm_model"]

\* C3 amended: in a run that takes the programmatic branch (a non-empty
\* inputs dictionary), every agent is given the value of OPENAI_MODEL_NAME
\* when it is set to a non-empty value, else the supplied llm_model, else
\* gpt-4o.
C3_EnvModelProgrammatic ==
    InputsTruthy(inputs) => \A i \in 1..Len(agents) : agents[i].llm = PrecedenceModel

C3_Witness ==
    /\ InputsTruthy(inputs)
    /\ Len(agents) = 3
    /\ EnvSet("OPENAI_MODEL_NAME")
    /\ HasKey("llm_model")
    /\ \A i \in 1..3 : agents[i].llm = ENV_MODEL

AgentTools == UNION {Range(agents[i].tools) : i \in 1..Len(agents)}

KeyMessages == {"warn_openai_key", "warn_serper_key", "skip_github"}

\* C4: a tool whose optional credential is absent is in no agent's tool
\* list, and a run that printed a missing-credential message, for an optional
\* or a required key, ends only after the engine was invoked.
C4_MissingCredentialNotFatal ==
    /\ ~EnvSet("GITHUB_TOKEN") => "GithubSearchTool" \notin AgentTools
    /\ ~EnvSet("EXA_API_KEY") => "EXASearchTool" \notin AgentTools
    /\ (Terminated /\ printed \cap KeyMessages # {}) => kickoffs = 1

C4_Witness ==
    /\ pc = "returned"
    /\ retval = CrewOutput
    /\ KeyMessages \subseteq printed
    /\ ~EnvSet("GITHUB_TOKEN") /\ ~EnvSet("EXA_API_KEY")
    /\ AgentTools = {"FileWriterTool", "SerperDevTool"}

\* the credential each credential-backed tool needs
Credential(tool) == CASE tool = "SerperDevTool" -> "SERPER_API_KEY"
                      [] tool = "GithubSearchTool" -> "GITHUB_TOKEN"
                      [] tool = "EXASearchTool" -> "EXA_API_KEY"

CredentialTools == {"SerperDevTool", "GithubSearchTool", "EXASearchTool"}

\* C5 as stated: each of the three credential-backed tools is constructed
\* only if its credential is set.
C5_NoToolWithoutCredential ==
    \A tool \in constructed \cap CredentialTools : EnvSet(Credential(tool))

\* C5 amended: the repository-search and academic-search tools are
\* constructed only if GITHUB_TOKEN, respectively EXA_API_KEY, is set; the
\* web-search tool is constructed in every run that gets to the tools, with
\* SERPER_API_KEY set or not.
C5_NoOptionalToolWithoutCredential ==
    /\ \A tool \in constructed \cap {"GithubSearchTool", "EXASearchTool"} :
            EnvSet(Credential(tool))
    /\ agents # <<>> => "SerperDevTool" \in constructed

C5_Witness ==
    /\ agents # <<>>
    /\ ~EnvSet("SERPER_API_KEY")
    /\ EnvSet("EXA_API_KEY")
    /\ constructed = {"FileWriterTool", "SerperDevTool", "GithubSearchTool"}

\* C6: in interactive mode with no PDF in the working directory, the process
\* exits with status 1 and no prompt was read, no directory created, no tool,
\* agent or task built, and the engine not invoked.
C6_NoPdfExitsFirst ==
    (~InputsTruthy(inputs) /\ pdf_files = <<>> /\ pc # "start")
        => /\ pc = "exited"
           /\ exit_status = 1
           /\ ~prompted
           /\ NothingBuilt

C6_Witness ==
    /\ ~inputs.is_dict
    /\ pdf_files = <<>>
    /\ pc = "exited"
    /\ exit_status = 1
    /\ "no_pdf_files" \in printed

AgentOfTask(n) == IF n <= 4 THEN "project_analyst"
                  ELSE IF n <= 9 THEN "resource_search_agent"
                  ELSE "coding_agent"

\* C7: the request handed to the engine is sequential and lists tasks 1 to 14
\* in script order (four of the analyst, five of the resource agent, five of
\* the coding agent); under the engine at most one task is in progress, it is
\* the successor of the last one completed, and completion follows the script.
C7_ScriptOrder ==
    /\ crew # NoCrew =>
        /\ crew.process = "sequential"
        /\ Len(crew.tasks) = 14
        /\ \A i \in 1..Len(crew.tasks) :
              crew.tasks[i].n = i /\ crew.tasks[i].agent = AgentOfTask(i)
    /\ Cardinality(in_progress) <= 1
    /\ \A k \in 1..Len(completed) : completed[k] = k
    /\ \A n \in in_progress : n = Len(completed) + 1

C7_Witness ==
    /\ pc = "engine"
    /\ Len(completed) = 6
    /\ in_progress = {7}
    /\ HasKey("project_text")
    /\ EnvSet("GITHUB_TOKEN")

\* C8 as stated: when the inputs dictionary holds neither a non-blank
\* project_text nor a pdf_path, or the resolved content is empty or shorter
\* than 10 characters, nothing is built, the engine is not invoked, and run()
\* ends by printing the error and returning the failure value.
C8_NoInputNoPipeline ==
    LET noInput == inputs.is_dict /\ ~UsesDirectText(Dict) /\ ~UsesPdfPath(Dict)
        noContent == Resolved /\ pc # "check_content" /\ ~ContentUsable(project_content)
    IN  (pc # "start" /\ (noInput \/ noContent))
            => /\ NothingBuilt
               /\ Terminated => /\ pc = "returned"
                                /\ retval = EXECUTION_FAILED
                                /\ "no_project_content" \in printed

\* C9: the engine is invoked at most once; an exception it raises is logged
\* and leaves run() as the same exception, with nothing returned; when the
\* engine returns, run() returns the engine's result.
C9_EngineOutcome ==
    /\ kickoffs <= 1
    /\ engine_exc # None =>
        /\ pc = "raised"
        /\ raised = engine_exc
        /\ "critical_error" \in printed
        /\ retval = None
    /\ pc = "raised" => engine_exc # None /\ kickoffs = 1
    /\ (pc = "returned" /\ kickoffs = 1) => (retval = CrewOutput /\ raised = None)

C9_Witness ==
    /\ pc = "raised"
    /\ raised = <<"<RateLimitError>">>
    /\ Len(completed) = 3
    /\ in_progress = {4}

\* C10: when extraction fails, the content is an error string that passes the
\* content check; the run does not end before the engine is invoked, and
\* tasks 1 to 4 carry the error text as the project content.
C10_ExtractionFailureProceeds ==
    (\E i \in 1..Len(read_calls) : read_calls[i].failed)
        => /\ IsErrorString(project_content)
           /\ ContentUsable(project_content)
           /\ Terminated => kickoffs = 1
           /\ \A n \in 1..Len(tasks) :
                n <= 4 => tasks[n].description = PROJECT_CONTENT_LABEL \o project_content

C10_Witness ==
    /\ pc = "engine"
    /\ Len(read_calls) = 1
    /\ read_calls[1].failed
    /\ Exists(pdf_files, read_calls[1].path)
    /\ project_content = ERR_READING_PRE
    /\ crew.tasks[1].description = PROJECT_CONTENT_LABEL \o ERR_READING_PRE

\* C11 as stated: run() is interactive (the file picker runs, the keyboard is
\* read) only when inputs is None; with any dictionary supplied no prompt is
\* read and the file picker does not end the process.
C11_InteractiveOnlyWhenNone ==
    inputs.is_dict => (~prompted /\ exit_status # 1)

\* what configure_llm has done to OPENAI_API_BASE when it returns: present
\* exactly when option 3 was typed and the custom-base answer was y, and then
\* it holds the URL that was typed
ConfiguredBase ==
    LET lines == frame.lines
        custom == /\ Strip(lines[1]) = <<"3">>
                  /\ Len(lines) >= 3
                  /\ Lower(lines[3]) = <<"y">>
    IN  /\ "OPENAI_API_BASE" \in DOMAIN environ <=> custom
        /\ custom => /\ Len(lines) = 4
                     /\ environ["OPENAI_API_BASE"] = Strip(lines[4])

\* C12 as stated: the environment changes only in the interactive model
\* configuration, a run given an input dictionary changes no environment
\* variable, and when configure_llm returns OPENAI_API_BASE is set exactly when
\* option 3 was chosen and the custom-base question answered y (to the entered
\* URL), any earlier value being removed otherwise.
C12_EnvironmentFrame ==
    [][/\ environ' # environ => pc = "configure_llm"
       /\ inputs.is_dict => environ' = environ
       /\ pc' = "configure_return" => ConfiguredBase']_vars

\* the part of C12 that holds: runs that take the programmatic branch
C12_NonEmptyDictEnvironmentFrame ==
    [][/\ environ' # environ => pc = "configure_llm"
       /\ InputsTruthy(inputs) => environ' = environ
       /\ pc' = "configure_return" => ConfiguredBase']_vars

\* the integer k typed on a line of the file prompt, 0 when the line is not an
\* integer between 1 and the number of detected files
EnteredNumber(line) ==
    LET n == ParseInt(line)
    IN  IF n.ok /\ 1 <= n.val /\ n.val <= Len(pdf_files) THEN n.val ELSE 0

\* C13: with at least one PDF detected, a line holding an integer k between 1
\* and the number of files ends the loop of select_pdf_file in that very turn,
\* returning the k-th detected file (index k-1); any other line (non-numeric,
\* zero, negative, above the count) leaves the loop prompting with nothing
\* selected; so the loop is left at the first valid line, and the file the run
\* goes on with is the one that line names, a member of the detected list.
C13_FirstValidEntrySelects ==
    /\ [][pc = "select_prompt" =>
             LET k == EnteredNumber(frame'.lines[1]) IN
             /\ pdf_files # <<>>
             /\ target_pdf_file' = None
             /\ IF k # 0
                THEN /\ pc' = "select_return"
                     /\ frame'.result = pdf_files[k]
                ELSE /\ pc' = "select_prompt"
                     /\ frame'.result = None]_vars
    /\ [][pc = "select_return" =>
             /\ pc' = "read_selected"
             /\ target_pdf_file' = frame.result]_vars
    /\ [](pc = "select_prompt" /\ frame.fn = "select_pdf_file"
             => EnteredNumber(frame.lines[1]) = 0 /\ target_pdf_file = None)
    /\ [](~InputsTruthy(inputs) /\ target_pdf_file # None
             => target_pdf_file \in Range(pdf_files))

\* two files detected, the line " 2" typed: the second file is returned
C13_Witness ==
    /\ pc = "select_return"
    /\ Len(pdf_files) = 2
    /\ frame.lines = << <<" ", "2">> >>
    /\ frame.result = pdf_files[2]
    /\ frame.result # pdf_files[1]

====
